---------------------------- MODULE Spec2Model ----------------------------
(***************************************************************************)
(* A model of the gold pawnshop calculator (src/pawnshop/app.py): the      *)
(* price history store, the volatility calculator, the margin resolver,    *)
(* the rate calculator, the loan calculator, the configuration store and   *)
(* the HTTP handlers that drive them.                                      *)
(*                                                                         *)
(* Units.  Python floats are modelled by exact integers and fractions:     *)
(*   time         whole weeks (the retention window, 14*24*3600 s, is 2)   *)
(*   spot price   whole EUR per troy ounce                                 *)
(*   percentages  whole percent (margins, thresholds, interest_percent)    *)
(*   interest     thousandths (interest_rate 0.13 is 130)                  *)
(*   buy price    cents per gram (50.00 is 5000)                           *)
(*   weight       half grams (10 g is 20)                                  *)
(*   amounts      millionths of EUR                                        *)
(*   other reals  fractions [num |-> n, den |-> d] with d > 0              *)
(***************************************************************************)
EXTENDS Integers, Sequences, FiniteSets, TLC

VARIABLES
    histFile,   \* content of PRICE_HISTORY_FILE
    cfgFile,    \* content of CONFIG_FILE
    config,     \* the process-wide `config` global
    now,        \* the clock read by time.time() / datetime.now()
    last        \* the operation performed last, with what it returned

vars == <<histFile, cfgFile, config, now, last>>

---------------------------------------------------------------------------
(* Bounds of the model *)

\* Clock values run over 0..MaxTime.
MaxTime == 3

\* Longest history found in the store when the process starts.
MaxStored == 3

\* The entry cap of the history (1000 in the source, line 133), scaled down so
\* that histories reach it.
HistoryCap == 2

\* Largest spot price the rate calculator is applied to.
MaxSpot == 4100

---------------------------------------------------------------------------
(* Program constants *)

\* 14 * 24 * 3600 seconds, in weeks.
RetentionWeeks == 2

\* The static fallback price 3900.0.
FallbackPrice == 3900

\* timedelta(days=30)
LoanTermDays == 30

\* TROY_OUNCE_TO_GRAMS = 31.1035, in ten-thousandths.
TROY_OUNCE_TO_GRAMS == 311035

\* KARAT_PURITY, in ten-thousandths.
KARAT_PURITY == [k \in {9, 14, 18, 22, 24} |->
                    CASE k = 24 -> 10000
                      [] k = 22 -> 9167
                      [] k = 18 -> 7500
                      [] k = 14 -> 5850
                      [] k = 9  -> 3750]

Karats == DOMAIN KARAT_PURITY

\* DEFAULT_CONFIG
DEFAULT_CONFIG ==
    [discount_rate |-> 94,
     interest_rate |-> 130,
     shop_name |-> "Gold Pawnshop",
     volatility_margins |-> [low |-> 4, medium |-> 6, high |-> 8],
     volatility_thresholds |-> [low_limit |-> 1, high_limit |-> 3]]

---------------------------------------------------------------------------
(* Fractions *)

Frac(n, d) == [num |-> n, den |-> d]

Zero == Frac(0, 1)

\* a = b, a < b, a > b for fractions with positive denominators
FracEq(a, b) == a.num * b.den = b.num * a.den
FracLt(a, b) == a.num * b.den < b.num * a.den
FracGt(a, b) == a.num * b.den > b.num * a.den

---------------------------------------------------------------------------
(* The price history file *)

\* A record of the stored list: a well-formed sample, a record with a
\* timestamp and no price, or an element with no usable timestamp.
Sample(t, p) == [kind |-> "sample", ts |-> t, price |-> p]
NoPrice(t) == [kind |-> "noprice", ts |-> t, price |-> 0]
NoTimestamp == [kind |-> "notimestamp", ts |-> 0, price |-> 0]

\* The file: absent, not parsable as JSON (an empty or truncated file, or
\* one that cannot be read), a JSON value that is no list (a scalar, an empty
\* object, an object with members), or a JSON list.
HistAbsent == [kind |-> "absent", items |-> <<>>]
HistUnparsable == [kind |-> "unparsable", items |-> <<>>]
HistScalar == [kind |-> "scalar", items |-> <<>>]
HistEmptyDict == [kind |-> "emptydict", items |-> <<>>]
HistDict == [kind |-> "dict", items |-> <<>>]
HistList(s) == [kind |-> "list", items |-> s]

NonListFiles == {HistAbsent, HistUnparsable, HistScalar, HistEmptyDict, HistDict}


\* All sequences over S of length at most n.
SeqsUpTo(S, n) == UNION {[1..k -> S] : k \in 0..n}

---------------------------------------------------------------------------
(* update_price_history *)

\* Lines 108-117: the history the call starts from.  A missing file and a
\* file json.load rejects both give [], any parsed JSON value is taken as is.
LoadHistory(file) ==
    IF file.kind \in {"absent", "unparsable"} THEN HistList(<<>>) ELSE file

\* Line 130: [h for h in history if h["timestamp"] > cutoff_time]
RECURSIVE KeepRecent(_, _)
KeepRecent(history, cutoff_time) ==
    IF history = <<>> THEN <<>>
    ELSE LET h == Head(history)
             rest == KeepRecent(Tail(history), cutoff_time)
         IN  IF h.ts > cutoff_time THEN <<h>> \o rest ELSE rest

\* A cap that keeps the oldest entries instead of the newest (history[:1000]).
CapHistoryOldest(history) ==
    IF Len(history) > HistoryCap THEN SubSeq(history, 1, HistoryCap) ELSE history

\* Lines 133-134: history[-1000:] when there are more than 1000 entries.
CapHistory(history) ==
    IF Len(history) > HistoryCap
    THEN SubSeq(history, Len(history) - HistoryCap + 1, Len(history))
    ELSE history

\* Lines 137-141: the write.  It succeeds, or open() fails and the file stays
\* as it was, or the dump breaks off and leaves a truncated file; the
\* exception is logged and swallowed.
WriteOutcomes == {"ok", "openfail", "partial"}

SaveHistory(file, history, write) ==
    CASE write = "ok" -> HistList(history)
      [] write = "openfail" -> file
      [] write = "partial" -> HistUnparsable

\* update_price_history(price_eur) at time t: whether an exception leaves the
\* function, and the file afterwards.  history.append fails on anything that
\* is no list (AttributeError), and h["timestamp"] fails on an element with
\* no usable timestamp (KeyError, TypeError); neither is inside a try block.
update_price_history(file, price_eur, t, write) ==
    LET loaded == LoadHistory(file)
    IN  IF loaded.kind # "list"
        THEN [raised |-> TRUE, file |-> file]
        ELSE LET history == Append(loaded.items, Sample(t, price_eur))
             IN  IF \E i \in DOMAIN history : history[i].kind = "notimestamp"
                 THEN [raised |-> TRUE, file |-> file]
                 ELSE [raised |-> FALSE,
                       file |-> SaveHistory(file,
                                   CapHistory(KeepRecent(history, t - RetentionWeeks)),
                                   write)]

---------------------------------------------------------------------------
(* calculate_volatility_state *)

\* The details dictionaries the function returns.
NoDetails == [kind |-> "empty", min |-> 0, max |-> 0, avg |-> Zero, count |-> 0]
InsufficientData ==
    [kind |-> "insufficient_data", min |-> 0, max |-> 0, avg |-> Zero, count |-> 0]
Stats(lo, hi, mean, n) ==
    [kind |-> "stats", min |-> lo, max |-> hi, avg |-> mean, count |-> n]

\* A filter that keeps the sample stamped exactly at the cutoff (>=).
RECURSIVE RecentPricesInclusive(_, _)
RecentPricesInclusive(history, cutoff_time) ==
    IF history = <<>> THEN [exc |-> FALSE, prices |-> <<>>]
    ELSE LET h == Head(history)
             rest == RecentPricesInclusive(Tail(history), cutoff_time)
         IN  CASE h.kind = "notimestamp" -> [exc |-> TRUE, prices |-> <<>>]
               [] h.kind # "notimestamp" /\ h.ts < cutoff_time -> rest
               [] h.kind = "noprice" /\ h.ts >= cutoff_time -> [exc |-> TRUE, prices |-> <<>>]
               [] OTHER -> [exc |-> rest.exc,
                            prices |-> IF rest.exc THEN <<>> ELSE <<h.price>> \o rest.prices]

\* Line 158: [h['price'] for h in history if h['timestamp'] > cutoff_time].
\* The condition is evaluated first, the price only for the elements it keeps.
RECURSIVE RecentPrices(_, _)
RecentPrices(history, cutoff_time) ==
    IF history = <<>> THEN [exc |-> FALSE, prices |-> <<>>]
    ELSE LET h == Head(history)
             rest == RecentPrices(Tail(history), cutoff_time)
         IN  CASE h.kind = "notimestamp" -> [exc |-> TRUE, prices |-> <<>>]
               [] h.kind # "notimestamp" /\ h.ts <= cutoff_time -> rest
               [] h.kind = "noprice" /\ h.ts > cutoff_time -> [exc |-> TRUE, prices |-> <<>>]
               [] OTHER -> [exc |-> rest.exc,
                            prices |-> IF rest.exc THEN <<>> ELSE <<h.price>> \o rest.prices]

RECURSIVE SeqMin(_)
SeqMin(s) == IF Len(s) = 1 THEN s[1]
             ELSE LET m == SeqMin(Tail(s)) IN IF s[1] < m THEN s[1] ELSE m

RECURSIVE SeqMax(_)
SeqMax(s) == IF Len(s) = 1 THEN s[1]
             ELSE LET m == SeqMax(Tail(s)) IN IF s[1] > m THEN s[1] ELSE m

RECURSIVE SeqSum(_)
SeqSum(s) == IF s = <<>> THEN 0 ELSE s[1] + SeqSum(Tail(s))

\* A classification whose low threshold is inclusive (volatility <= low_limit).
ClassifyInclusive(volatility, thresholds) ==
    IF ~FracGt(volatility, Frac(thresholds.low_limit, 1)) THEN "low"
    ELSE IF FracGt(volatility, Frac(thresholds.high_limit, 1)) THEN "high"
    ELSE "medium"

\* Lines 173-178
Classify(volatility, thresholds) ==
    IF FracLt(volatility, Frac(thresholds.low_limit, 1)) THEN "low"
    ELSE IF FracGt(volatility, Frac(thresholds.high_limit, 1)) THEN "high"
    ELSE "medium"

\* Lines 153-185, the body of the try block: exc says that an exception was
\* raised inside it.
VolatilityBody(file, cfg, t) ==
    LET failed == [exc |-> TRUE, state |-> "medium", volatility |-> Zero,
                   details |-> NoDetails]
        short == [exc |-> FALSE, state |-> "medium", volatility |-> Zero,
                  details |-> InsufficientData]
    IN  CASE file.kind \in {"unparsable", "scalar", "dict"} -> failed
          [] file.kind = "emptydict" -> short
          [] file.kind = "list" ->
               LET recent == RecentPrices(file.items, t - RetentionWeeks)
                   recent_prices == recent.prices
               IN  IF recent.exc THEN failed
                   ELSE IF Len(recent_prices) < 2 THEN short
                   ELSE LET min_price == SeqMin(recent_prices)
                            max_price == SeqMax(recent_prices)
                            total == SeqSum(recent_prices)
                            avg_price == Frac(total, Len(recent_prices))
                            volatility == Frac((max_price - min_price) * 100
                                                  * Len(recent_prices), total)
                        IN  IF total = 0 THEN failed
                            ELSE [exc |-> FALSE,
                                  state |-> Classify(volatility, cfg.volatility_thresholds),
                                  volatility |-> volatility,
                                  details |-> Stats(min_price, max_price, avg_price,
                                                    Len(recent_prices))]

\* A handler that lets the exception of the try block escape.
VolatilityUncaught(file, cfg, t) ==
    [raised |-> file.kind # "absent" /\ VolatilityBody(file, cfg, t).exc,
     state |-> "medium", volatility |-> Zero, details |-> NoDetails]

\* Lines 149-150 and 187-189 around the body: a missing file and any exception
\* give ('medium', 0.0, {}).
VolatilityGuarded(file, cfg, t) ==
    IF file.kind = "absent"
    THEN [raised |-> FALSE, state |-> "medium", volatility |-> Zero, details |-> NoDetails]
    ELSE LET r == VolatilityBody(file, cfg, t)
         IN  IF r.exc
             THEN [raised |-> FALSE, state |-> "medium", volatility |-> Zero,
                   details |-> NoDetails]
             ELSE [raised |-> FALSE, state |-> r.state, volatility |-> r.volatility,
                   details |-> r.details]

calculate_volatility_state(file, cfg, t) == VolatilityGuarded(file, cfg, t)

---------------------------------------------------------------------------
(* The configuration file: load_config and save_config *)

\* A JSON member that may be missing: <<>> or <<value>>.
None == <<>>
Some(v) == <<v>>

\* The JSON object of a configuration file; every key may be missing, and so
\* may every key of the two nested tables.
Doc(discount, interest, name, margins, thresholds) ==
    [discount_rate |-> discount, interest_rate |-> interest, shop_name |-> name,
     volatility_margins |-> margins, volatility_thresholds |-> thresholds]

MarginsDoc(low, medium, high) == [low |-> low, medium |-> medium, high |-> high]
ThresholdsDoc(low_limit, high_limit) == [low_limit |-> low_limit, high_limit |-> high_limit]

EmptyDoc == Doc(None, None, None, None, None)

\* The file: absent, not parsable, a JSON value that is no object, or an object.
CfgAbsent == [kind |-> "absent", doc |-> EmptyDoc]
CfgUnparsable == [kind |-> "unparsable", doc |-> EmptyDoc]
CfgNonDict == [kind |-> "nondict", doc |-> EmptyDoc]
CfgJson(doc) == [kind |-> "json", doc |-> doc]

\* json.dump(config): every key of the dictionary is written.
ToDoc(cfg) ==
    Doc(Some(cfg.discount_rate), Some(cfg.interest_rate), Some(cfg.shop_name),
        Some(MarginsDoc(Some(cfg.volatility_margins.low),
                        Some(cfg.volatility_margins.medium),
                        Some(cfg.volatility_margins.high))),
        Some(ThresholdsDoc(Some(cfg.volatility_thresholds.low_limit),
                           Some(cfg.volatility_thresholds.high_limit))))

\* Lines 75-81: a missing key, and a missing key of a nested table, is filled
\* from DEFAULT_CONFIG.
Filled(opt, default) == IF opt = None THEN default ELSE opt[1]

FillDefaults(doc) ==
    LET d == DEFAULT_CONFIG
        m == Filled(doc.volatility_margins, MarginsDoc(None, None, None))
        t == Filled(doc.volatility_thresholds, ThresholdsDoc(None, None))
    IN  [discount_rate |-> Filled(doc.discount_rate, d.discount_rate),
         interest_rate |-> Filled(doc.interest_rate, d.interest_rate),
         shop_name |-> Filled(doc.shop_name, d.shop_name),
         volatility_margins |->
            [low |-> Filled(m.low, d.volatility_margins.low),
             medium |-> Filled(m.medium, d.volatility_margins.medium),
             high |-> Filled(m.high, d.volatility_margins.high)],
         volatility_thresholds |->
            [low_limit |-> Filled(t.low_limit, d.volatility_thresholds.low_limit),
             high_limit |-> Filled(t.high_limit, d.volatility_thresholds.high_limit)]]

\* load_config(): the defaults when the file is missing or cannot be parsed,
\* and when the parsed value is no object (config[key] = value raises).
load_config(file) ==
    IF file.kind = "json" THEN FillDefaults(file.doc) ELSE DEFAULT_CONFIG

\* save_config(config): the file afterwards and the value returned.
save_config(file, cfg, write) ==
    CASE write = "ok" -> [file |-> CfgJson(ToDoc(cfg)), saved |-> TRUE]
      [] write = "openfail" -> [file |-> file, saved |-> FALSE]
      [] write = "partial" -> [file |-> CfgUnparsable, saved |-> FALSE]

---------------------------------------------------------------------------
(* The history store on its own: update_price_history applied to any stored
   history *)

\* What the store may hold when the process starts: any of the non-list
\* files, or a list of at most MaxStored elements with timestamps before, at
\* and after the current time.
Elements(prices, stamps) ==
    {Sample(t, p) : t \in 0..MaxTime, p \in prices}
        \cup {NoPrice(t) : t \in stamps} \cup {NoTimestamp}

StoredFiles(prices, stamps) ==
    NonListFiles \cup {HistList(s) : s \in SeqsUpTo(Elements(prices, stamps), MaxStored)}

RetentionPrices == {3940, 4020}

Started == [op |-> "start"]

InitRetention ==
    /\ histFile \in StoredFiles(RetentionPrices, {MaxTime})
    /\ cfgFile = CfgAbsent
    /\ config = load_config(cfgFile)
    /\ now = RetentionWeeks
    /\ last = Started

\* A call update_price_history(price_eur).
RecordPrice ==
    \E price_eur \in RetentionPrices, write \in WriteOutcomes :
        LET r == update_price_history(histFile, price_eur, now, write)
        IN  /\ histFile' = r.file
            /\ last' = [op |-> "record", at |-> now, price |-> price_eur,
                        before |-> histFile, raised |-> r.raised, write |-> write]
            /\ UNCHANGED <<cfgFile, config, now>>

\* A week passes.
Tick ==
    /\ now < MaxTime
    /\ now' = now + 1
    /\ UNCHANGED <<histFile, cfgFile, config, last>>

NextRetention == RecordPrice \/ Tick

SpecRetention == InitRetention /\ [][NextRetention]_vars

\* The list a record that went through wrote: the samples of the history it
\* started from that are at most 14 days old, then the new sample.
RecordWrote == last.op = "record" /\ ~last.raised /\ last.write = "ok"

RecordExpected ==
    LET old == IF last.before.kind = "list" THEN last.before.items ELSE <<>>
    IN  Append(SelectSeq(old, LAMBDA h : h.ts > last.at - RetentionWeeks),
               Sample(last.at, last.price))

\* C1: the history a record writes holds no sample stamped more than 14 days
\* before the record and at most HistoryCap samples; it is the tail of the
\* retained samples followed by the new one, in insertion order, so when the
\* cap applies the most recently appended HistoryCap samples are kept and the
\* new sample is the last of them.
C1_Retention ==
    RecordWrote =>
        LET written == histFile.items
            all == RecordExpected
            drop == Len(all) - Len(written)
        IN  /\ histFile.kind = "list"
            /\ \A i \in DOMAIN written : written[i].ts >= last.at - RetentionWeeks
            /\ Len(written) <= HistoryCap
            /\ Len(written) = IF Len(all) > HistoryCap THEN HistoryCap ELSE Len(all)
            /\ \A i \in DOMAIN written : written[i] = all[i + drop]
            /\ written[Len(written)] = Sample(last.at, last.price)

\* C1 witness: a record on a full stored history that holds an expired sample
\* and, after expiry, still more samples than the cap allows.
C1_Witness ==
    /\ RecordWrote
    /\ last.before.kind = "list"
    /\ Len(last.before.items) = MaxStored
    /\ \E i \in DOMAIN last.before.items :
          last.before.items[i].ts < last.at - RetentionWeeks
    /\ Len(RecordExpected) > HistoryCap
    /\ Len(histFile.items) = HistoryCap

---------------------------------------------------------------------------
(* The volatility calculator on its own: calculate_volatility_state applied
   to any stored history under any pair of thresholds *)

\* Over two samples, 3980 and 4020 give a volatility of exactly 1 percent,
\* 3900 and 3980 about 2.03 percent, 3900 and 4020 about 3.03 percent.
VolatilityPrices == {3900, 3980, 4020}

\* (low_limit, high_limit): the defaults, a pair of equal limits, and a pair
\* with the low limit above the high one (nothing enforces their order).
ThresholdPairs == {<<1, 3>>, <<1, 1>>, <<3, 1>>}

WithThresholds(pair) ==
    [DEFAULT_CONFIG EXCEPT !.volatility_thresholds =
                               [low_limit |-> pair[1], high_limit |-> pair[2]]]

\* The process has loaded its configuration from the file; or the file was
\* truncated afterwards by an admin update whose write broke off, which
\* leaves the loaded configuration in place.
InitVolatility ==
    /\ histFile \in StoredFiles(VolatilityPrices, {0, MaxTime})
    /\ \/ /\ \E pair \in ThresholdPairs :
                 cfgFile = CfgJson(ToDoc(WithThresholds(pair)))
          /\ config = load_config(cfgFile)
       \/ /\ cfgFile = CfgUnparsable
          /\ config = WithThresholds(<<3, 1>>)
    /\ now = MaxTime
    /\ last = Started

\* A call calculate_volatility_state().
CalculateVolatility ==
    /\ last' = [op |-> "volatility", at |-> now,
                result |-> calculate_volatility_state(histFile, config, now)]
    /\ UNCHANGED <<histFile, cfgFile, config, now>>

NextVolatility == CalculateVolatility

SpecVolatility == InitVolatility /\ [][NextVolatility]_vars

\* The stored samples stamped inside the 14-day window, as positions of the
\* stored list, and the figures over them.
WindowSamples ==
    {i \in DOMAIN histFile.items :
        /\ histFile.items[i].kind = "sample"
        /\ histFile.items[i].ts > last.at - RetentionWeeks}

WindowPrice(i) == histFile.items[i].price

WindowMin == CHOOSE p \in {WindowPrice(i) : i \in WindowSamples} :
                 \A j \in WindowSamples : p <= WindowPrice(j)

WindowMax == CHOOSE p \in {WindowPrice(i) : i \in WindowSamples} :
                 \A j \in WindowSamples : p >= WindowPrice(j)

RECURSIVE SumOver(_)
SumOver(I) == IF I = {} THEN 0
              ELSE LET i == CHOOSE x \in I : TRUE
                   IN  WindowPrice(i) + SumOver(I \ {i})

\* (max - min) / mean * 100 over the window
WindowVolatility ==
    Frac((WindowMax - WindowMin) * 100 * Cardinality(WindowSamples),
         SumOver(WindowSamples))

\* The stored value is a list whose elements are all well-formed samples.
WellFormed ==
    /\ histFile.kind = "list"
    /\ \A i \in DOMAIN histFile.items : histFile.items[i].kind = "sample"

Volatility == last.op = "volatility"

LowLimit == Frac(config.volatility_thresholds.low_limit, 1)
HighLimit == Frac(config.volatility_thresholds.high_limit, 1)

OnThreshold ==
    \/ FracEq(last.result.volatility, LowLimit)
    \/ FracEq(last.result.volatility, HighLimit)

\* C2 as stated: the state is 'medium' (with volatility 0.0) whenever fewer
\* than 2 stored samples lie in the window, and whenever the volatility equals
\* low_limit or high_limit, for every pair of thresholds.
C2_Original ==
    Volatility =>
        /\ Cardinality(WindowSamples) < 2 =>
              last.result.state = "medium" /\ last.result.volatility = Zero
        /\ (Cardinality(WindowSamples) >= 2 /\ last.result.details.kind = "stats"
              /\ OnThreshold) => last.result.state = "medium"

\* C2 amended: as stated, the threshold case for every pair of thresholds
\* with low_limit <= high_limit.
C2_MediumDefaults ==
    Volatility =>
        /\ Cardinality(WindowSamples) < 2 =>
              last.result.state = "medium" /\ last.result.volatility = Zero
        /\ (Cardinality(WindowSamples) >= 2 /\ last.result.details.kind = "stats"
              /\ OnThreshold
              /\ config.volatility_thresholds.low_limit
                    <= config.volatility_thresholds.high_limit)
              => last.result.state = "medium"

\* C2 witness: a volatility computed over two or more samples that equals
\* both limits of an ordered pair of thresholds.
C2_Witness ==
    /\ Volatility
    /\ Cardinality(WindowSamples) >= 2
    /\ last.result.details.kind = "stats"
    /\ FracEq(last.result.volatility, LowLimit)
    /\ FracEq(last.result.volatility, HighLimit)
    /\ last.result.state = "medium"

\* C3: over a well-formed history with at least 2 samples in the window the
\* volatility returned is (max - min) / mean * 100 over exactly the samples
\* of the window, and the state is 'low' iff it is below low_limit, 'high'
\* iff it is not below low_limit and above high_limit, 'medium' otherwise,
\* with the limits of the in-process configuration.
C3_VolatilityFormula ==
    (Volatility /\ WellFormed /\ Cardinality(WindowSamples) >= 2) =>
        LET v == WindowVolatility
            r == last.result
        IN  /\ FracEq(r.volatility, v)
            /\ r.state = "low" <=> FracLt(v, LowLimit)
            /\ r.state = "high" <=> (~FracLt(v, LowLimit) /\ FracGt(v, HighLimit))
            /\ r.state = "medium" <=> (~FracLt(v, LowLimit) /\ ~FracGt(v, HighLimit))

\* C3 witness: a 'low' volatility over two in-window samples of a history
\* that also holds a sample older than the window with a price above
\* theirs (counting it would give 'high'), under limits the configuration
\* file no longer holds.
C3_Witness ==
    /\ Volatility /\ WellFormed
    /\ Cardinality(WindowSamples) = 2
    /\ \E i \in DOMAIN histFile.items :
          /\ histFile.items[i].ts < last.at - RetentionWeeks
          /\ histFile.items[i].price > WindowMax
    /\ WindowMax > WindowMin
    /\ last.result.state = "low"
    /\ cfgFile = CfgUnparsable

\* The store the calculation cannot use: absent, unparsable, no list, or a
\* list in which it reads an element without a usable timestamp or an
\* in-window record without a price.
Unusable ==
    \/ histFile.kind \in {"absent", "unparsable", "scalar", "dict"}
    \/ /\ histFile.kind = "list"
       /\ \E i \in DOMAIN histFile.items :
             \/ histFile.items[i].kind = "notimestamp"
             \/ /\ histFile.items[i].kind = "noprice"
                /\ histFile.items[i].ts > last.at - RetentionWeeks

\* The store that parses and holds fewer than 2 samples in the window.
Short ==
    /\ ~Unusable
    /\ Cardinality(WindowSamples) < 2

\* The store the claim calls absent, empty, unreadable or corrupt.
Corrupt ==
    \/ histFile.kind # "list"
    \/ histFile.items = <<>>
    \/ \E i \in DOMAIN histFile.items : histFile.items[i].kind # "sample"

---------------------------------------------------------------------------
(* get_current_margin_percentage and calculate_rates *)

\* A lookup that falls back to the 'low' entry.
MarginForLow(margins, state) ==
    IF state \in DOMAIN margins THEN margins[state] ELSE margins.low

\* Line 258: margins.get(state, margins['medium']).  The table of the config
\* always holds 'medium' (load_config fills the missing keys of the nested
\* tables, update_config writes all three).
MarginFor(margins, state) ==
    IF state \in DOMAIN margins THEN margins[state] ELSE margins.medium

\* Lines 254-260.
get_current_margin_percentage(file, cfg, t) ==
    LET v == calculate_volatility_state(file, cfg, t)
        margins == cfg.volatility_margins
    IN  [margin_percent |-> MarginFor(margins, v.state),
         state |-> v.state,
         volatility |-> v.volatility]

\* The integer below n / d.
RoundDown(n, d) == n \div d

\* Python's round(n / d), d > 0: the nearest integer, a tie to the even one.
RoundHalfEven(n, d) ==
    LET q == n \div d
        r == n % d
    IN  IF 2 * r > d \/ (2 * r = d /\ q % 2 = 1) THEN q + 1 ELSE q

\* round(a * b / d) for d > 0, computed as floor(a / d) * b + round((a % d) * b / d)
\* so that no product leaves the 32-bit integers.
RoundProduct(a, b, d) == (a \div d) * b + RoundHalfEven((a % d) * b, d)

\* Lines 273-287 for one karat.  With the price P in EUR, the purity in
\* ten-thousandths and the margin in percent,
\*   melt_value_per_gram = P * purity / 311035
\*   raw_buy_price * 4   = P * purity * (100 - margin) / (25 * 311035)
\* and round(raw_buy_price * 4) / 4 is that many quarters, 25 cents each.
RateEntry(xaueur_price, purity_factor, margin_percent) ==
    [melt_value |-> Frac(xaueur_price * purity_factor, TROY_OUNCE_TO_GRAMS),
     buy_pawn_price |->
        25 * RoundProduct(xaueur_price * purity_factor, 100 - margin_percent,
                          25 * TROY_OUNCE_TO_GRAMS)]

\* calculate_rates(xaueur_price): the table by karat, and '_meta'.
calculate_rates(xaueur_price, file, cfg, t) ==
    LET m == get_current_margin_percentage(file, cfg, t)
    IN  [rates |-> [karat \in Karats |->
                      RateEntry(xaueur_price, KARAT_PURITY[karat], m.margin_percent)],
         meta |-> [volatility_state |-> m.state,
                   volatility_percent |-> m.volatility,
                   active_margin |-> m.margin_percent]]

---------------------------------------------------------------------------
(* calculate_loan *)

\* datetime.now() as a day number.
Today(t) == 7 * t

NoQuote ==
    [karat |-> 0, weight |-> 0, melt_value_per_gram |-> Zero, total_melt_value |-> Zero,
     buy_pawn_price_per_gram |-> 0, loan_amount |-> 0, interest_1_month |-> 0,
     total_due_after_1_month |-> 0, due_date |-> 0]

\* Lines 304-325.  buy price in cents times weight in half grams is the loan
\* in 1/200 EUR; the interest rate is in thousandths.
Quote(karat, weight_in_grams, entry, interest_rate, t) ==
    LET loan_amount == entry.buy_pawn_price * weight_in_grams * 5000
        interest_1_month == entry.buy_pawn_price * weight_in_grams * 5 * interest_rate
    IN  [karat |-> karat,
         weight |-> weight_in_grams,
         melt_value_per_gram |-> entry.melt_value,
         total_melt_value |-> Frac(entry.melt_value.num * weight_in_grams,
                                   entry.melt_value.den * 2),
         buy_pawn_price_per_gram |-> entry.buy_pawn_price,
         loan_amount |-> loan_amount,
         interest_1_month |-> interest_1_month,
         total_due_after_1_month |-> loan_amount + interest_1_month,
         due_date |-> Today(t) + LoanTermDays]

\* A default that replaces every falsy rate, 0 included (if not interest_rate).
RateOrDefaultFalsy(interest_rate, cfg) ==
    IF interest_rate = None \/ interest_rate = Some(0) THEN cfg.interest_rate
    ELSE interest_rate[1]

\* Lines 301-302: if interest_rate is None, the rate of the global config.
RateOrDefault(interest_rate, cfg) ==
    IF interest_rate = None THEN cfg.interest_rate ELSE interest_rate[1]

\* calculate_loan(karat, weight_in_grams, rates, interest_rate): rates[karat]
\* raises KeyError for a karat the table does not hold; nothing else is
\* checked.
calculate_loan(karat, weight_in_grams, rates, interest_rate, cfg, t) ==
    IF karat \notin DOMAIN rates
    THEN [raised |-> TRUE, quote |-> NoQuote]
    ELSE [raised |-> FALSE,
          quote |-> Quote(karat, weight_in_grams, rates[karat],
                          RateOrDefault(interest_rate, cfg), t)]

---------------------------------------------------------------------------
(* fetch_gold_price *)

\* What the price source gives: nothing (yfinance missing, raising, or
\* returning empty data), or a price.
Unavailable == None

\* Line 242: abs(price_eur - 3900.0) > 0.01, in hundredths.
LooksReal(price_eur) ==
    LET diff == price_eur - FallbackPrice
    IN  100 * (IF diff < 0 THEN -diff ELSE diff) > 1

\* fetch_gold_price(): the price returned and the history file afterwards.
\* An exception that leaves update_price_history is caught by the outer
\* handler (lines 247-249), which returns 3900.0.
fetch_gold_price(file, source, t, write) ==
    LET price_eur == IF source = Unavailable THEN FallbackPrice ELSE source[1]
    IN  IF LooksReal(price_eur)
        THEN LET r == update_price_history(file, price_eur, t, write)
             IN  [price |-> IF r.raised THEN FallbackPrice ELSE price_eur,
                  file |-> r.file,
                  recorded |-> TRUE,
                  record_raised |-> r.raised]
        ELSE [price |-> price_eur, file |-> file,
              recorded |-> FALSE, record_raised |-> FALSE]

---------------------------------------------------------------------------
(* POST /calculate *)

\* A form field: missing, text that is no number, or a number.
Missing == [kind |-> "missing", value |-> 0]
NotANumber == [kind |-> "bad", value |-> 0]
Number(v) == [kind |-> "num", value |-> v]

\* What a handler saw of its call fetch_gold_price(), if it made one.
NoFetch == [called |-> FALSE, price |-> 0, recorded |-> FALSE, record_raised |-> FALSE]

Response(status, quote, file, fetch) ==
    [status |-> status, quote |-> quote, file |-> file, fetch |-> fetch]

\* Lines 376-403.  int(None) and float(None) raise TypeError (500), text
\* that is no number raises ValueError (400); the karat is parsed first.
calculate(karat_field, weight_field, file, cfg, t, source, write) ==
    CASE karat_field.kind = "missing" -> Response(500, NoQuote, file, NoFetch)
      [] karat_field.kind = "bad" -> Response(400, NoQuote, file, NoFetch)
      [] karat_field.kind = "num" /\ weight_field.kind = "missing" ->
            Response(500, NoQuote, file, NoFetch)
      [] karat_field.kind = "num" /\ weight_field.kind = "bad" ->
            Response(400, NoQuote, file, NoFetch)
      [] OTHER ->
            LET karat == karat_field.value
                weight == weight_field.value
            IN  IF karat \notin DOMAIN KARAT_PURITY
                THEN Response(400, NoQuote, file, NoFetch)
                ELSE IF weight <= 0
                THEN Response(400, NoQuote, file, NoFetch)
                ELSE LET f == fetch_gold_price(file, source, t, write)
                         rates == calculate_rates(f.price, f.file, cfg, t).rates
                         loan_info == calculate_loan(karat, weight, rates, None, cfg, t)
                         fetch == [called |-> TRUE, price |-> f.price, recorded |-> f.recorded,
                                   record_raised |-> f.record_raised]
                     IN  IF loan_info.raised
                         THEN Response(500, NoQuote, f.file, fetch)
                         ELSE Response(200, loan_info.quote, f.file, fetch)

\* Prices the source reports: the value of the static fallback, and others.
SourcePrices == {3900, 3980, 4020}

Sources == {Unavailable} \cup {Some(p) : p \in SourcePrices}

\* The outcomes of the source and of the history write that a request can
\* meet: the write is reached only with a price that is recorded, and the
\* source only when the request gets as far as the fetch.
WritesFor(source) ==
    IF source # Unavailable /\ LooksReal(source[1]) THEN WriteOutcomes ELSE {"ok"}

Validated(karat_field, weight_field) ==
    /\ karat_field.kind = "num" /\ weight_field.kind = "num"
    /\ karat_field.value \in DOMAIN KARAT_PURITY
    /\ weight_field.value > 0

\* A request POST /calculate with form fields from the given sets.
Calculate(karat_fields, weight_fields) ==
    \E karat_field \in karat_fields, weight_field \in weight_fields :
      \E source \in IF Validated(karat_field, weight_field) THEN Sources
                    ELSE {Unavailable} :
        \E write \in WritesFor(source) :
          \E r \in {calculate(karat_field, weight_field, histFile, config, now,
                              source, write)} :
            /\ histFile' = r.file
            /\ last' = [op |-> "calculate", at |-> now, karat |-> karat_field,
                        weight |-> weight_field, status |-> r.status,
                        quote |-> r.quote, source |-> source, fetch |-> r.fetch]
            /\ UNCHANGED <<cfgFile, config, now>>

---------------------------------------------------------------------------
(* The rate calculator on its own: calculate_rates applied to every spot
   price under each volatility state and several margin tables *)

MarginTables ==
    {[low |-> 4, medium |-> 6, high |-> 8], [low |-> 0, medium |-> 100, high |-> 150]}

WithMargins(table) == [DEFAULT_CONFIG EXCEPT !.volatility_margins = table]

\* No history (medium), and two current samples 0, about 2.03 and about
\* 3.03 percent apart (low, medium, high under the default limits).
RateHistories ==
    {HistAbsent}
        \cup {HistList(<<Sample(MaxTime, 3900), Sample(MaxTime, p)>>) :
                 p \in {3900, 3980, 4020}}

\* The spot price of the call is drawn with the initial state.
InitRates ==
    /\ histFile \in RateHistories
    /\ \E table \in MarginTables : cfgFile = CfgJson(ToDoc(WithMargins(table)))
    /\ config = load_config(cfgFile)
    /\ now = MaxTime
    /\ \E xaueur_price \in 1..MaxSpot : last = [op |-> "request", price |-> xaueur_price]

\* The call calculate_rates(xaueur_price).
CalculateRates ==
    /\ last.op = "request"
    /\ last' = [op |-> "rates", at |-> now, price |-> last.price,
                result |-> calculate_rates(last.price, histFile, config, now)]
    /\ UNCHANGED <<histFile, cfgFile, config, now>>

NextRates == CalculateRates

SpecRates == InitRates /\ [][NextRates]_vars

\* The distance between the buy price of a karat (q quarters) and the raw buy
\* price melt_value_per_gram * (1 - margin/100), in units of 1 / (25 * den)
\* quarters, where melt_value_per_gram = num / den: with
\*   raw * 4 = num * (100 - margin) / (25 * den)
\* and num = a * (25 * den) + b, it is
\*   (q - a * (100 - margin)) * (25 * den) - b * (100 - margin).
QuarterError(karat) ==
    LET entry == last.result.rates[karat]
        d == 25 * entry.melt_value.den
        share == 100 - last.result.meta.active_margin
        q == entry.buy_pawn_price \div 25
    IN  (q - (entry.melt_value.num \div d) * share) * d
            - (entry.melt_value.num % d) * share

\* C5: every buy_pawn_price of a rate table is a whole number of quarters
\* (25 cents) and lies within 0.125 (half a quarter) of
\* melt_value_per_gram * (1 - margin/100).
C5_QuarterRounding ==
    last.op = "rates" =>
        \A karat \in Karats :
            LET entry == last.result.rates[karat]
            IN  /\ entry.buy_pawn_price % 25 = 0
                /\ 2 * QuarterError(karat) <= 25 * entry.melt_value.den
                /\ 2 * QuarterError(karat) >= -(25 * entry.melt_value.den)

\* C5 witness: the rates of a spot price of 3000 under the 'medium' margin of
\* 6 percent: 24 karat melts at 96.45 and is bought at 90.75, rounded up from
\* 90.665.
C5_Witness ==
    /\ last.op = "rates"
    /\ last.price = 3000
    /\ last.result.meta.volatility_state = "medium"
    /\ last.result.meta.active_margin = 6
    /\ last.result.rates[24].buy_pawn_price = 9075
    /\ QuarterError(24) > 0


---------------------------------------------------------------------------
(* The loan calculator on its own: calculate_loan applied to any karat,
   weight, rate table and interest rate *)

\* The rate table of the quote scenario (18 karat bought at 50.00, melting at
\* 66.0), the table calculate_rates gives for a spot price of 3900 under the
\* default margin, and a table that also lists a karat outside KARAT_PURITY.
ScenarioRates == 18 :> [melt_value |-> Frac(66, 1), buy_pawn_price |-> 5000]

RateTables ==
    {ScenarioRates,
     calculate_rates(3900, HistAbsent, DEFAULT_CONFIG, 0).rates,
     ScenarioRates @@ (10 :> [melt_value |-> Frac(37, 1), buy_pawn_price |-> 2825])}

LoanKarats == Karats \cup {0, 10}

\* Weights in half grams: -5 g, 0, 0.5 g, 2.5 g, 10 g.
LoanWeights == {-10, 0, 1, 5, 20}

\* interest_rate: not passed, 0, 0.13.
LoanInterestRates == {None, Some(0), Some(130)}

InitLoan ==
    /\ histFile = HistAbsent
    /\ \E rate \in {50, 130} :
          cfgFile = CfgJson(ToDoc([DEFAULT_CONFIG EXCEPT !.interest_rate = rate]))
    /\ config = load_config(cfgFile)
    /\ now \in 0..MaxTime
    /\ \E karat \in LoanKarats, weight \in LoanWeights, rates \in RateTables,
          interest_rate \in LoanInterestRates :
          last = [op |-> "request", karat |-> karat, weight |-> weight,
                  rates |-> rates, interest_rate |-> interest_rate]

\* The call calculate_loan(karat, weight_in_grams, rates, interest_rate).
CalculateLoan ==
    /\ last.op = "request"
    /\ last' = [op |-> "loan", at |-> now, karat |-> last.karat,
                weight |-> last.weight, rates |-> last.rates,
                interest_rate |-> last.interest_rate,
                result |-> calculate_loan(last.karat, last.weight, last.rates,
                                          last.interest_rate, config, now)]
    /\ UNCHANGED <<histFile, cfgFile, config, now>>

NextLoan == CalculateLoan

SpecLoan == InitLoan /\ [][NextLoan]_vars

\* C6 as stated: a quote for a karat outside {9, 14, 18, 22, 24} or a weight
\* <= 0 fails, and no LoanQuote is returned, both from calculate_loan called
\* directly and from POST /calculate (which answers 400).
C6_Original ==
    /\ (last.op = "loan" /\ (last.karat \notin {9, 14, 18, 22, 24} \/ last.weight <= 0))
          => (last.result.raised /\ last.result.quote = NoQuote)
    /\ (last.op = "calculate" /\ last.karat.kind = "num" /\ last.weight.kind = "num"
          /\ (last.karat.value \notin {9, 14, 18, 22, 24} \/ last.weight.value <= 0))
          => (last.status = 400 /\ last.quote = NoQuote)

\* The half of C6 that is about POST /calculate.
CalculateRejectsInvalid ==
    (last.op = "calculate" /\ last.karat.kind = "num" /\ last.weight.kind = "num"
        /\ (last.karat.value \notin {9, 14, 18, 22, 24} \/ last.weight.value <= 0))
        => (last.status = 400 /\ last.quote = NoQuote)

\* The rate calculate_loan applies: the one passed, else the one of config.
AppliedRate ==
    IF last.interest_rate = None THEN config.interest_rate ELSE last.interest_rate[1]

\* C10: for a supported karat of the rate table and a weight > 0,
\* loan_amount = buy price * weight, interest = loan_amount * interest rate,
\* total due = loan_amount + interest, total_melt_value = melt value * weight
\* and due_date = today + 30 days, with the rate of the in-process config
\* when none is passed; karat 18, 10 g, 50.00, 66.0 and 0.13 give 500.00,
\* 65.00, 565.00 and 660.00.
C10_LoanArithmetic ==
    (last.op = "loan" /\ last.karat \in Karats /\ last.karat \in DOMAIN last.rates
        /\ last.weight > 0) =>
        LET q == last.result.quote
            entry == last.rates[last.karat]
        IN  /\ ~last.result.raised
            /\ q.loan_amount = 5000 * (entry.buy_pawn_price * last.weight)
            /\ q.loan_amount % 1000 = 0
            /\ q.interest_1_month = (q.loan_amount \div 1000) * AppliedRate
            /\ q.total_due_after_1_month = q.loan_amount + q.interest_1_month
            /\ q.total_melt_value.num = entry.melt_value.num * last.weight
            /\ q.total_melt_value.den = entry.melt_value.den * 2
            /\ q.due_date - 7 * last.at = 30
            /\ (last.karat = 18 /\ last.weight = 20 /\ last.rates = ScenarioRates
                  /\ AppliedRate = 130) =>
                  /\ q.loan_amount = 500000000
                  /\ q.interest_1_month = 65000000
                  /\ q.total_due_after_1_month = 565000000
                  /\ FracEq(q.total_melt_value, Frac(660, 1))

\* C10 witness: the scenario quote, computed with no rate passed and 0.13 in
\* the in-process config.
C10_Witness ==
    /\ last.op = "loan"
    /\ last.karat = 18 /\ last.weight = 20 /\ last.rates = ScenarioRates
    /\ last.interest_rate = None /\ config.interest_rate = 130
    /\ last.result.quote.total_due_after_1_month = 565000000


---------------------------------------------------------------------------
(* GET /, GET /api/rates, GET /health, GET /admin *)

\* Lines 334-363 and 409-422: a fetch, then the rates of the price fetched.
\* index() also flags the page when the price equals 3900.0.
RatesPage(file, cfg, t, source, write) ==
    LET f == fetch_gold_price(file, source, t, write)
        r == calculate_rates(f.price, f.file, cfg, t)
    IN  [status |-> 200, file |-> f.file,
         fetch |-> [called |-> TRUE, price |-> f.price, recorded |-> f.recorded,
                    record_raised |-> f.record_raised],
         rates |-> r.rates, meta |-> r.meta,
         is_fallback |-> f.price = FallbackPrice]

index(file, cfg, t, source, write) == RatesPage(file, cfg, t, source, write)

api_rates(file, cfg, t, source, write) == RatesPage(file, cfg, t, source, write)

\* Lines 436-458: the page shows the configuration of the file (not the
\* global one) and the current volatility.
admin_panel(cfile, hfile, cfg, t) ==
    LET current_config == load_config(cfile)
    IN  [status |-> 200,
         interest_percent |-> Frac(current_config.interest_rate, 10),
         shop_name |-> current_config.shop_name,
         margins |-> current_config.volatility_margins,
         thresholds |-> current_config.volatility_thresholds,
         current_volatility |-> calculate_volatility_state(hfile, cfg, t)]

Index ==
    \E source \in Sources :
      \E write \in WritesFor(source) :
        \E r \in {index(histFile, config, now, source, write)} :
            /\ histFile' = r.file
            /\ last' = [op |-> "index", at |-> now, status |-> r.status,
                        source |-> source, fetch |-> r.fetch, rates |-> r.rates,
                        meta |-> r.meta, is_fallback |-> r.is_fallback]
            /\ UNCHANGED <<cfgFile, config, now>>

ApiRates ==
    \E source \in Sources :
      \E write \in WritesFor(source) :
        \E r \in {api_rates(histFile, config, now, source, write)} :
            /\ histFile' = r.file
            /\ last' = [op |-> "api_rates", at |-> now, status |-> r.status,
                        source |-> source, fetch |-> r.fetch, rates |-> r.rates,
                        meta |-> r.meta]
            /\ UNCHANGED <<cfgFile, config, now>>

Health ==
    /\ last' = [op |-> "health", at |-> now, status |-> 200]
    /\ UNCHANGED <<histFile, cfgFile, config, now>>

AdminPanel ==
    /\ last' = [op |-> "admin", at |-> now,
                page |-> admin_panel(cfgFile, histFile, config, now)]
    /\ UNCHANGED <<histFile, cfgFile, config, now>>

---------------------------------------------------------------------------
(* POST /admin/update *)

Form(interest_percent, shop_name, margin_low, margin_medium, margin_high) ==
    [interest_percent |-> interest_percent, shop_name |-> shop_name,
     margin_low |-> margin_low, margin_medium |-> margin_medium,
     margin_high |-> margin_high]

\* float(request.form.get(name, default))
FloatOr(field, default) == IF field.kind = "missing" THEN default ELSE field.value

\* Lines 481-490: the configuration of the file with the submitted values.
\* interest_percent / 100 in thousandths is 10 * interest_percent.
Submitted(form, current_config) ==
    [current_config EXCEPT
        !.interest_rate = 10 * FloatOr(form.interest_percent, 13),
        !.shop_name = Filled(form.shop_name, "Gold Pawnshop"),
        !.volatility_margins = [low |-> FloatOr(form.margin_low, 4),
                                medium |-> FloatOr(form.margin_medium, 6),
                                high |-> FloatOr(form.margin_high, 9)]]

\* An update that answers success and leaves the global config as it was.
update_config_stale(form, file, cfg, write) ==
    IF \E name \in {"interest_percent", "margin_low", "margin_medium", "margin_high"} :
          form[name].kind = "bad"
    THEN [status |-> 400, file |-> file, config |-> cfg]
    ELSE LET saved == save_config(file, Submitted(form, load_config(file)), write)
         IN  IF saved.saved
             THEN [status |-> 200, file |-> saved.file, config |-> cfg]
             ELSE [status |-> 500, file |-> saved.file, config |-> cfg]

\* update_config(): the answer, the file and the global config afterwards.
\* A field that is no number raises ValueError before anything is changed.
update_config(form, file, cfg, write) ==
    IF \E name \in {"interest_percent", "margin_low", "margin_medium", "margin_high"} :
          form[name].kind = "bad"
    THEN [status |-> 400, file |-> file, config |-> cfg]
    ELSE LET saved == save_config(file, Submitted(form, load_config(file)), write)
         IN  IF saved.saved
             THEN [status |-> 200, file |-> saved.file, config |-> load_config(saved.file)]
             ELSE [status |-> 500, file |-> saved.file, config |-> cfg]

\* A request POST /admin/update with a form of the given set.
UpdateConfig(forms) ==
    \E form \in forms, write \in WriteOutcomes :
        \E r \in {update_config(form, cfgFile, config, write)} :
            /\ cfgFile' = r.file
            /\ config' = r.config
            /\ last' = [op |-> "update_config", at |-> now, form |-> form,
                        status |-> r.status]
            /\ UNCHANGED <<histFile, now>>

---------------------------------------------------------------------------
(* The configuration store on its own: admin updates on any configuration
   file *)

\* The scenario of the specification; other values with a shop name; low and
\* high exchanged; nothing submitted; interest or a margin that is no number.
ScenarioForm == Form(Number(13), None, Number(4), Number(6), Number(8))

AdminForms ==
    {ScenarioForm,
     Form(Number(0), Some("Acme"), Number(5), Number(7), Number(10)),
     Form(Number(13), None, Number(8), Number(6), Number(4)),
     Form(Missing, None, Missing, Missing, Missing),
     Form(NotANumber, None, Number(4), Number(6), Number(8)),
     Form(Number(13), Some("Acme"), Number(4), NotANumber, Number(8))}

\* Files found at startup: none, a broken one, a JSON list, an empty object,
\* an object with some keys and some nested keys missing, and complete ones.
ConfigFiles ==
    {CfgAbsent, CfgUnparsable, CfgNonDict, CfgJson(EmptyDoc),
     CfgJson(Doc(None, Some(50), None,
                 Some(MarginsDoc(None, None, Some(12))),
                 Some(ThresholdsDoc(Some(2), None)))),
     CfgJson(ToDoc(DEFAULT_CONFIG)),
     CfgJson(ToDoc(WithThresholds(<<3, 1>>)))}

InitConfig ==
    /\ histFile = HistAbsent
    /\ cfgFile \in ConfigFiles
    /\ config = load_config(cfgFile)
    /\ now = MaxTime
    /\ last = Started

NextConfig == UpdateConfig(AdminForms) \/ AdminPanel

SpecConfig == InitConfig /\ [][NextConfig]_vars

\* An update with all four numbers submitted that answered success.
UpdateSucceeded ==
    /\ last.op = "update_config"
    /\ last.status = 200
    /\ \A name \in {"interest_percent", "margin_low", "margin_medium", "margin_high"} :
          last.form[name].kind = "num"

\* The values of a configuration are the submitted ones.
HoldsSubmitted(cfg) ==
    /\ 100 * cfg.interest_rate = 1000 * last.form.interest_percent.value
    /\ cfg.volatility_margins = [low |-> last.form.margin_low.value,
                                 medium |-> last.form.margin_medium.value,
                                 high |-> last.form.margin_high.value]

\* C7: after an admin update with four numbers that answers success, the
\* persisted configuration has interest_rate = interest_percent / 100 and
\* exactly the three submitted margins, load_config returns these values, and
\* the process-wide config holds them.
C7_UpdateRoundTrip ==
    UpdateSucceeded =>
        /\ cfgFile.kind = "json"
        /\ cfgFile.doc.interest_rate # None
        /\ 100 * cfgFile.doc.interest_rate[1] = 1000 * last.form.interest_percent.value
        /\ cfgFile.doc.volatility_margins =
              Some(MarginsDoc(Some(last.form.margin_low.value),
                              Some(last.form.margin_medium.value),
                              Some(last.form.margin_high.value)))
        /\ HoldsSubmitted(load_config(cfgFile))
        /\ HoldsSubmitted(config)

\* C7 witness: the scenario update (interest 13, margins 4, 6, 8) answered
\* success on a file that held other margins, and the process-wide config
\* has interest_rate 0.13 and margins 4, 6, 8.
C7_Witness ==
    /\ UpdateSucceeded
    /\ last.form = ScenarioForm
    /\ config.interest_rate = 130
    /\ config.volatility_margins = [low |-> 4, medium |-> 6, high |-> 8]
    /\ config.volatility_thresholds = [low_limit |-> 2, high_limit |-> 3]


---------------------------------------------------------------------------
(* The application: the HTTP handlers over the two files and the global
   config *)

\* The history file found at startup: any of the non-list files, an empty
\* list, a list with an expired sample, with a record without price, and with
\* an element without timestamp.
InitialHistories ==
    NonListFiles
        \cup {HistList(<<>>), HistList(<<Sample(0, 3980)>>),
              HistList(<<NoPrice(MaxTime)>>), HistList(<<NoTimestamp>>)}

Init ==
    /\ histFile \in InitialHistories
    /\ cfgFile \in {CfgAbsent, CfgJson(ToDoc(WithThresholds(<<3, 1>>)))}
    /\ config = load_config(cfgFile)
    /\ now = MaxTime
    /\ last = Started

Next ==
    \/ Index
    \/ Calculate({Number(18), Number(10), NotANumber}, {Number(20), Number(0), Missing})
    \/ ApiRates
    \/ Health
    \/ AdminPanel
    \/ UpdateConfig({ScenarioForm, Form(NotANumber, None, Missing, Missing, Missing)})

Spec == Init /\ [][Next]_vars

\* The price the source reported to the fetch of the last request.
SourcePrice == IF last.source = Unavailable THEN FallbackPrice ELSE last.source[1]

Fetched == last.op \in {"index", "api_rates", "calculate"} /\ last.fetch.called

\* C8 as stated: update_price_history never raises past its own boundary,
\* whatever the store holds, so the price fetch_gold_price returns is the
\* one fetched.
C8_Original ==
    Fetched =>
        /\ ~last.fetch.record_raised
        /\ last.fetch.price = SourcePrice

\* The step of a request that fetched a price.
FetchStep == last'.op \in {"index", "api_rates", "calculate"} /\ last'.fetch.called

\* The history file after the step is a list that ends with one new sample
\* carrying the given price, after samples the file held before.
AppendedOne(price) ==
    /\ histFile'.kind = "list"
    /\ histFile'.items # <<>>
    /\ histFile'.items[Len(histFile'.items)] = Sample(now, price)
    /\ \A i \in 1..(Len(histFile'.items) - 1) :
          \E j \in DOMAIN histFile.items : histFile'.items[i] = histFile.items[j]
    /\ Len(histFile'.items) <= Len(histFile.items) + 1

\* C9 as stated: a fetch in which the source succeeds appends exactly one
\* sample with the fetched price to the stored history, a fetch that falls
\* back to 3900.0 appends none, and no other operation changes the history.
C9_Original ==
    [][IF FetchStep /\ last'.source # Unavailable
       THEN AppendedOne(last'.source[1])
       ELSE histFile' = histFile]_vars

\* The fallback half of C9, and its last sentence.
HistoryChangedOnlyByFetch ==
    [][(~FetchStep \/ last'.source = Unavailable) => histFile' = histFile]_vars


---------------------------------------------------------------------------
(* The margin resolver on its own: get_current_margin_percentage over the
   stored history and the configured table, the lookup of line 258 over any
   state key, and calculate_rates on top of them *)

\* The state keys handed to the lookup: the three calculate_volatility_state
\* returns, and keys no margin table holds.
StateKeys == {"low", "medium", "high", "extreme", ""}

MarginPrices == {3000, FallbackPrice, MaxSpot}

InitMargin ==
    /\ histFile \in RateHistories
    /\ \E table \in MarginTables : cfgFile = CfgJson(ToDoc(WithMargins(table)))
    /\ config = load_config(cfgFile)
    /\ now = MaxTime
    /\ \E xaueur_price \in MarginPrices, state \in StateKeys :
          last = [op |-> "request", price |-> xaueur_price, state |-> state]

\* The call get_current_margin_percentage().
ResolveMargin ==
    /\ last.op = "request"
    /\ last' = [op |-> "margin", at |-> now,
                result |-> get_current_margin_percentage(histFile, config, now)]
    /\ UNCHANGED <<histFile, cfgFile, config, now>>

\* Line 258 for the state key of the request.
LookupMargin ==
    /\ last.op = "request"
    /\ last' = [op |-> "lookup", at |-> now, state |-> last.state,
                margin_percent |-> MarginFor(config.volatility_margins, last.state)]
    /\ UNCHANGED <<histFile, cfgFile, config, now>>

NextMargin == ResolveMargin \/ LookupMargin \/ CalculateRates

SpecMargin == InitMargin /\ [][NextMargin]_vars

\* The configured margin table.
ConfiguredMargins == config.volatility_margins

\* The entry the lookup is to give for a state key.
ExpectedMargin(state) ==
    IF state \in {"low", "medium", "high"} THEN ConfiguredMargins[state]
    ELSE ConfiguredMargins["medium"]

\* The distance between the buy price of a karat and melt_value_per_gram *
\* share / 100, in the units of QuarterError.
ShareError(karat, share) ==
    LET entry == last.result.rates[karat]
        d == 25 * entry.melt_value.den
        q == entry.buy_pawn_price \div 25
    IN  (q - (entry.melt_value.num \div d) * share) * d
            - (entry.melt_value.num % d) * share

\* C11: get_current_margin_percentage returns the entry of the configured
\* margin table for the current volatility state; the lookup gives the
\* table's 'medium' entry for every state key the table does not hold; and
\* calculate_rates reports that margin as active_margin and pays the share
\* 1.0 - margin/100 of the melt value (to the nearest quarter).
C11_MarginResolver ==
    /\ last.op = "margin" =>
          /\ last.result.state = calculate_volatility_state(histFile, config, now).state
          /\ last.result.state \in DOMAIN ConfiguredMargins
          /\ last.result.margin_percent = ConfiguredMargins[last.result.state]
    /\ last.op = "lookup" => last.margin_percent = ExpectedMargin(last.state)
    /\ last.op = "rates" =>
          LET state == last.result.meta.volatility_state
              margin == ExpectedMargin(state)
          IN  /\ state = calculate_volatility_state(histFile, config, now).state
              /\ last.result.meta.active_margin = margin
              /\ \A karat \in Karats :
                    LET half == 25 * last.result.rates[karat].melt_value.den
                    IN  /\ 2 * ShareError(karat, 100 - margin) <= half
                        /\ 2 * ShareError(karat, 100 - margin) >= -half

\* C11 witness: a lookup of a state key the table does not hold, answered
\* with the 'medium' entry where the three entries differ.
C11_Witness ==
    /\ last.op = "lookup"
    /\ last.state \notin DOMAIN ConfiguredMargins
    /\ last.margin_percent = ConfiguredMargins["medium"]
    /\ ConfiguredMargins["medium"] # ConfiguredMargins["low"]
    /\ ConfiguredMargins["medium"] # ConfiguredMargins["high"]

================================================================================
